---- MODULE Spec2Model ----
(***************************************************************************)
(* A model of SearchServer (src/unnamed/part_001): the inverted index, the *)
(* query parser, TF-IDF evaluation, ranking, matching and the document     *)
(* store.                                                                  *)
(*                                                                         *)
(* Representation.                                                         *)
(*   - a char is its byte value, a string (text, word) is a sequence of    *)
(*     chars: <<97, 32, 98>> is "a b";                                     *)
(*   - a double is its significand and its exponent, and the arithmetic    *)
(*     on doubles rounds as IEEE 754 binary64 does; the natural logarithm  *)
(*     is read from a table of the doubles std::log gives;                 *)
(*   - an exception is the outcome of the call: "invalid_argument"         *)
(*     (std::invalid_argument) or "out_of_range" (std::out_of_range).      *)
(***************************************************************************)
EXTENDS Integers, Sequences, FiniteSets, TLC

VARIABLES
    constructed,                        \* the constructor returned an object
    stop_words_,                        \* set<Word>
    tf_,                                \* map<Word, map<DocumentId, double>>
    document_id_to_rating_and_rating_,  \* map<DocumentId, pair<int, DocumentStatus>>
    document_id_orders_,                \* vector<DocumentId>
    last                                \* the last call: its arguments and what it gave

vars == <<constructed, stop_words_, tf_, document_id_to_rating_and_rating_,
          document_id_orders_, last>>

\* the SearchServer object
server == <<constructed, stop_words_, tf_, document_id_to_rating_and_rating_,
            document_id_orders_>>

(***************************************************************************)
(* Bounds and program constants                                            *)
(***************************************************************************)
\* document ids offered to the general driver are -1 .. MaxId
MaxId == 1

\* words of the queries offered to the parser's driver
MaxQueryWords == 2

\* documents added by the ranking driver
MaxRankDocs == 4

\* documents added by the result-cap driver
MaxCapDocs == 7

\* length of the rating lists offered by the rating driver
MaxRatings == 2

\* stop words in the collections offered by the construction driver
MaxStopWords == 2

\* times a word is written in the texts offered by the term frequency driver
MaxRepeat == 6

MAX_RESULT_DOCUMENT_COUNT == 5

\* the range of int
IntMax == 2147483647

IntMin == -IntMax - 1

DocumentStatus == {"ACTUAL", "IRRELEVANT", "BANNED", "REMOVED"}

(***************************************************************************)
(* Sequences, strings                                                      *)
(***************************************************************************)
Range(s) == {s[i] : i \in 1..Len(s)}

\* basic_string::compare: lexicographic on the bytes, a proper prefix first
LexLess(a, b) ==
    \E k \in 1..(Len(b)) :
        /\ \A j \in 1..(k - 1) : j <= Len(a) /\ a[j] = b[j]
        /\ \/ k = Len(a) + 1
           \/ k <= Len(a) /\ a[k] < b[k]

\* the elements of a set<Word> in iteration order
RECURSIVE InOrder(_)
InOrder(S) ==
    IF S = {} THEN <<>>
    ELSE LET first == CHOOSE w \in S : \A v \in S \ {w} : LexLess(w, v)
         IN  <<first>> \o InOrder(S \ {first})

\* the keys of a map<DocumentId, ...> in iteration order
RECURSIVE IdsInOrder(_)
IdsInOrder(S) ==
    IF S = {} THEN <<>>
    ELSE LET first == CHOOSE d \in S : \A e \in S : d <= e
         IN  <<first>> \o IdsInOrder(S \ {first})

\* what operator>>(istream&, string&) skips: isspace in the "C" locale
IsSpace(c) == c \in {9, 10, 11, 12, 13, 32}

RECURSIVE SplitFrom(_, _, _, _)
SplitFrom(text, i, word, words) ==
    LET flushed == IF word = <<>> THEN words ELSE Append(words, word)
    IN  IF i > Len(text) THEN flushed
        ELSE IF IsSpace(text[i]) THEN SplitFrom(text, i + 1, <<>>, flushed)
        ELSE SplitFrom(text, i + 1, Append(word, text[i]), words)

SplitIntoWords(text) == SplitFrom(text, 1, <<>>, <<>>)

\* a slip in MakeUniqueNonEmptyStrings: the empty strings kept
MakeUniqueStrings(strings) == Range(strings)

MakeUniqueNonEmptyStrings(strings) == {str \in Range(strings) : str # <<>>}

\* a slip in IsInvalid: the whitespace among the control characters let through
IsInvalidButWhitespace(text) ==
    \E i \in 1..Len(text) : 0 <= text[i] /\ text[i] <= 31 /\ ~IsSpace(text[i])

IsInvalid(text) == \E i \in 1..Len(text) : 0 <= text[i] /\ text[i] <= 31

IsStopWord(word) == word \in stop_words_

\* a slip in SplitIntoWordsNoStop: the stop words kept
SplitIntoWordsKeepStop(text) == SplitIntoWords(text)

SplitIntoWordsNoStop(text) ==
    SelectSeq(SplitIntoWords(text), LAMBDA word : ~IsStopWord(word))

(***************************************************************************)
(* Query parsing                                                           *)
(***************************************************************************)
\* a slip in ParseQueryWord: "--" refused anywhere in the word
ParseQueryWordNoDoubleMinus(text) ==
    LET is_minus == text[1] = 45
        data     == IF is_minus THEN Tail(text) ELSE text
    IN  IF \/ IsInvalid(text)
           \/ is_minus /\ Len(text) = 1
           \/ \E i \in 1..(Len(text) - 1) : text[i] = 45 /\ text[i + 1] = 45
        THEN [thrown |-> TRUE, data |-> text, is_minus |-> is_minus,
              is_stop |-> FALSE]
        ELSE [thrown |-> FALSE, data |-> data, is_minus |-> is_minus,
              is_stop |-> IsStopWord(data)]

\* a slip in ParseQueryWord: a lone '-' taken for a minus word
ParseQueryWordLoneMinus(text) ==
    IF IsInvalid(text)
    THEN [thrown |-> TRUE, data |-> text, is_minus |-> FALSE, is_stop |-> FALSE]
    ELSE LET is_minus == text[1] = 45
         IN  IF is_minus /\ Len(text) > 1 /\ text[2] = 45
             THEN [thrown |-> TRUE, data |-> text, is_minus |-> TRUE,
                   is_stop |-> FALSE]
             ELSE LET data == IF is_minus THEN Tail(text) ELSE text
                  IN  [thrown |-> FALSE, data |-> data, is_minus |-> is_minus,
                       is_stop |-> IsStopWord(data)]

\* a QueryWord, or thrown = TRUE for std::invalid_argument
ParseQueryWord(text) ==
    IF IsInvalid(text)
    THEN [thrown |-> TRUE, data |-> text, is_minus |-> FALSE, is_stop |-> FALSE]
    ELSE LET is_minus == text[1] = 45
         IN  IF is_minus /\ (Len(text) = 1 \/ text[2] = 45)
             THEN [thrown |-> TRUE, data |-> text, is_minus |-> TRUE,
                   is_stop |-> FALSE]
             ELSE LET data == IF is_minus THEN Tail(text) ELSE text
                  IN  [thrown |-> FALSE, data |-> data, is_minus |-> is_minus,
                       is_stop |-> IsStopWord(data)]

\* a slip in ParseQuery: the else lost, a minus word is a plus word as well
ParseQueryMinusAmongPlus(text) ==
    LET words  == SplitIntoWordsNoStop(text)
        parsed == [i \in 1..Len(words) |-> ParseQueryWord(words[i])]
        kept   == {i \in 1..Len(words) : ~parsed[i].is_stop}
    IN  IF \E i \in 1..Len(words) : parsed[i].thrown
        THEN [thrown |-> TRUE, plus_words |-> {}, minus_words |-> {}]
        ELSE [thrown |-> FALSE,
              plus_words  |-> {parsed[i].data : i \in kept},
              minus_words |-> {parsed[i].data : i \in {k \in kept : parsed[k].is_minus}}]

\* a Query, or thrown = TRUE when ParseQueryWord throws on one of the words
ParseQuery(text) ==
    LET words  == SplitIntoWordsNoStop(text)
        parsed == [i \in 1..Len(words) |-> ParseQueryWord(words[i])]
        kept   == {i \in 1..Len(words) : ~parsed[i].is_stop}
    IN  IF \E i \in 1..Len(words) : parsed[i].thrown
        THEN [thrown |-> TRUE, plus_words |-> {}, minus_words |-> {}]
        ELSE [thrown |-> FALSE,
              plus_words  |-> {parsed[i].data : i \in {k \in kept : ~parsed[k].is_minus}},
              minus_words |-> {parsed[i].data : i \in {k \in kept : parsed[k].is_minus}}]

(***************************************************************************)
(* Ratings                                                                 *)
(***************************************************************************)
\* int / int with a positive divisor: the quotient truncated toward zero
IntDiv(a, b) == IF a >= 0 THEN a \div b ELSE (a + b - 1) \div b

\* x + 2^31, for x < 0
Raised(x) == (x + IntMax) + 1

\* a + b in int: whether the sum leaves the range of int, and the value a
\* two's-complement int then holds
AddInt(a, b) ==
    IF a > 0 /\ b > 0 /\ a > IntMax - b
    THEN [overflow |-> TRUE, value |-> IntMin + ((b - (IntMax - a)) - 1)]
    ELSE IF a < 0 /\ b < 0 /\ Raised(a) <= IntMax - Raised(b)
    THEN [overflow |-> TRUE, value |-> Raised(a) + Raised(b)]
    ELSE [overflow |-> FALSE, value |-> a + b]

\* std::accumulate(ratings.begin(), ratings.end(), init) on int
RECURSIVE Accumulate(_, _)
Accumulate(ratings, init) ==
    IF ratings = <<>> THEN [overflow |-> FALSE, value |-> init]
    ELSE LET sum  == AddInt(init, Head(ratings))
             rest == Accumulate(Tail(ratings), sum.value)
         IN  [overflow |-> sum.overflow \/ rest.overflow, value |-> rest.value]

\* a slip in ComputeAverageRating: the quotient rounded down
ComputeAverageRatingFloor(ratings) ==
    IF ratings = <<>> THEN {0}
    ELSE {Accumulate(ratings, 0).value \div Len(ratings)}

\* The values ComputeAverageRating may return. Signed overflow in the sum is
\* undefined behaviour: the sum is then some int, drawn here from the wrapped
\* sum, 0 and the two ends of int.
ComputeAverageRating(ratings) ==
    IF ratings = <<>> THEN {0}
    ELSE LET sum == Accumulate(ratings, 0)
         IN  IF sum.overflow
             THEN {IntDiv(v, Len(ratings)) : v \in {sum.value, 0, IntMin, IntMax}}
             ELSE {IntDiv(sum.value, Len(ratings))}

(***************************************************************************)
(* double: IEEE 754 binary64, round to nearest, ties to even.              *)
(* A double that is not negative is [m |-> significand, e |-> exponent],   *)
(* the number m * 2^e, where m is a natural number of MantissaBits bits,   *)
(* written in base 2^14 with the low digit first; zero is [m |-> <<>>,     *)
(* e |-> 0]. No double of the server is negative, infinite (but the unused *)
(* 1./0 of a document without words) or subnormal.                         *)
(***************************************************************************)
MantissaBits == 53

\* the bits of a digit: the product of two digits, and the sum of as many
\* products as a significand has digits, is less than 2^31
DigitBits == 14

Base == 2 ^ DigitBits

Max(a, b) == IF a > b THEN a ELSE b

Digit(a, i) == IF i <= Len(a) THEN a[i] ELSE 0

\* a natural number without its leading zero digits
RECURSIVE Trim(_)
Trim(a) ==
    IF a = <<>> \/ a[Len(a)] # 0 THEN a ELSE Trim(SubSeq(a, 1, Len(a) - 1))

\* -1, 0, 1 as a < b, a = b, a > b
BigCmp(a, b) ==
    IF Len(a) # Len(b) THEN (IF Len(a) < Len(b) THEN -1 ELSE 1)
    ELSE LET differ == {i \in 1..Len(a) : a[i] # b[i]}
             top    == CHOOSE i \in differ : \A j \in differ : j <= i
         IN  IF differ = {} THEN 0 ELSE IF a[top] < b[top] THEN -1 ELSE 1

RECURSIVE AddFrom(_, _, _, _)
AddFrom(a, b, i, carry) ==
    IF i > Max(Len(a), Len(b))
    THEN (IF carry = 0 THEN <<>> ELSE <<carry>>)
    ELSE LET sum == Digit(a, i) + Digit(b, i) + carry
         IN  <<sum % Base>> \o AddFrom(a, b, i + 1, sum \div Base)

BigAdd(a, b) == AddFrom(a, b, 1, 0)

\* a - b for a >= b
RECURSIVE SubFrom(_, _, _, _)
SubFrom(a, b, i, borrow) ==
    IF i > Len(a) THEN <<>>
    ELSE LET diff == (a[i] - Digit(b, i)) - borrow
         IN  <<diff % Base>> \o SubFrom(a, b, i + 1, IF diff < 0 THEN 1 ELSE 0)

BigSub(a, b) == Trim(SubFrom(a, b, 1, 0))

\* a * d for one digit d
RECURSIVE TimesFrom(_, _, _, _)
TimesFrom(a, d, i, carry) ==
    IF i > Len(a) THEN (IF carry = 0 THEN <<>> ELSE <<carry>>)
    ELSE LET product == a[i] * d + carry
         IN  <<product % Base>> \o TimesFrom(a, d, i + 1, product \div Base)

\* the products of a digit of a and a digit of b that fall on digit k of a * b,
\* summed
RECURSIVE Column(_, _, _, _)
Column(a, b, k, i) ==
    IF i > Len(a) \/ i > k THEN 0
    ELSE (IF k + 1 - i <= Len(b) THEN a[i] * b[k + 1 - i] ELSE 0)
             + Column(a, b, k, i + 1)

RECURSIVE MulFrom(_, _, _, _)
MulFrom(a, b, k, carry) ==
    IF k > Len(a) + Len(b) THEN <<>>
    ELSE LET sum == Column(a, b, k, 1) + carry
         IN  <<sum % Base>> \o MulFrom(a, b, k + 1, sum \div Base)

\* a * b for two significands
BigMul(a, b) == Trim(MulFrom(a, b, 1, 0))

\* the quotient and the remainder of a by n, 0 < n < Base
RECURSIVE DivFrom(_, _, _, _)
DivFrom(a, n, i, rem) ==
    IF i = 0 THEN [quotient |-> <<>>, rem |-> rem]
    ELSE LET part == rem * Base + a[i]
             rest == DivFrom(a, n, i - 1, part % n)
         IN  [quotient |-> Append(rest.quotient, part \div n), rem |-> rest.rem]

BigDiv(a, n) ==
    LET result == DivFrom(a, n, Len(a), 0)
    IN  [quotient |-> Trim(result.quotient), rem |-> result.rem]

\* the number of bits of a
BitLen(a) ==
    IF a = <<>> THEN 0
    ELSE DigitBits * (Len(a) - 1) +
             (CHOOSE k \in 1..DigitBits :
                  2 ^ (k - 1) <= a[Len(a)] /\ a[Len(a)] < 2 ^ k)

\* a * 2^s
ShiftLeft(a, s) ==
    IF a = <<>> THEN <<>>
    ELSE [i \in 1..(s \div DigitBits) |-> 0]
             \o TimesFrom(a, 2 ^ (s % DigitBits), 1, 0)

\* a \div 2^s
ShiftRight(a, s) ==
    LET t    == s % DigitBits
        kept == SubSeq(a, (s \div DigitBits) + 1, Len(a))
    IN  Trim([i \in 1..Len(kept) |->
                 (kept[i] \div 2 ^ t)
                     + (Digit(kept, i + 1) % 2 ^ t) * 2 ^ (DigitBits - t)])

\* bit i of a, bit 0 the lowest
Bit(a, i) == (Digit(a, (i \div DigitBits) + 1) \div 2 ^ (i % DigitBits)) % 2

\* some bit of a below bit i is set
AnyBitBelow(a, i) ==
    \/ \E j \in 1..(i \div DigitBits) : Digit(a, j) # 0
    \/ Digit(a, (i \div DigitBits) + 1) % 2 ^ (i % DigitBits) # 0

Zero == [m |-> <<>>, e |-> 0]

\* the double nearest to m * 2^e, the even one of two equally near
Round(m, e) ==
    LET bits == BitLen(m)
        s    == bits - MantissaBits
        q    == ShiftRight(m, s)
        up   == Bit(m, s - 1) = 1 /\ (AnyBitBelow(m, s - 1) \/ Bit(q, 0) = 1)
        r    == IF up THEN BigAdd(q, <<1>>) ELSE q
    IN  IF m = <<>> THEN Zero
        ELSE IF s <= 0 THEN [m |-> ShiftLeft(m, -s), e |-> e + s]
        ELSE IF BitLen(r) > MantissaBits
        THEN [m |-> ShiftRight(r, 1), e |-> e + s + 1]
        ELSE [m |-> r, e |-> e + s]

\* x + y
DoubleAdd(x, y) ==
    IF x.m = <<>> THEN y
    ELSE IF y.m = <<>> THEN x
    ELSE LET e == IF x.e < y.e THEN x.e ELSE y.e
         IN  Round(BigAdd(ShiftLeft(x.m, x.e - e), ShiftLeft(y.m, y.e - e)), e)

\* x * y
DoubleMul(x, y) ==
    IF x.m = <<>> \/ y.m = <<>> THEN Zero ELSE Round(BigMul(x.m, y.m), x.e + y.e)

\* x < y
DoubleLess(x, y) ==
    IF x = y \/ y.m = <<>> THEN FALSE
    ELSE IF x.m = <<>> THEN TRUE
    ELSE x.e < y.e \/ (x.e = y.e /\ BigCmp(x.m, y.m) < 0)

\* abs(x - y)
DoubleAbsDiff(x, y) ==
    LET hi == IF DoubleLess(x, y) THEN y ELSE x
        lo == IF DoubleLess(x, y) THEN x ELSE y
    IN  IF x = y THEN Zero
        ELSE IF lo.m = <<>> THEN hi
        ELSE LET e == IF hi.e < lo.e THEN hi.e ELSE lo.e
             IN  Round(BigSub(ShiftLeft(hi.m, hi.e - e), ShiftLeft(lo.m, lo.e - e)), e)

\* 1. / n for 0 < n < Base: the quotient to 3 bits more than a double holds,
\* and one more that says whether anything is left
Inverse(n) ==
    LET k      == MantissaBits + 2 + BitLen(<<n>>)
        result == BigDiv(ShiftLeft(<<1>>, k), n)
    IN  Round(BigAdd(ShiftLeft(result.quotient, 1),
                     IF result.rem = 0 THEN <<>> ELSE <<1>>), -(k + 1))

\* a slip in AddDocument: = step in place of += step
RepeatedOnce(step, count) == step

\* step + ... + step, count times, from 0.0
RECURSIVE Repeated(_, _)
Repeated(step, count) ==
    IF count = 0 THEN Zero ELSE DoubleAdd(Repeated(step, count - 1), step)

(***************************************************************************)
(* Relevance                                                               *)
(***************************************************************************)
GetDocumentCount == Len(document_id_orders_)

\* std::log of the double n / df: the doubles the C library gives
Log ==
    << \* log(n / df), row n, column df
       << Zero >>,
       << [m |-> <<14831, 15336, 9263, 1419>>, e |-> -53],
          Zero >>,
       << [m |-> <<779, 10932, 16039, 1124>>, e |-> -52],
          [m |-> <<6220, 13054, 12862, 1660>>, e |-> -54],
          Zero >>,
       << [m |-> <<14831, 15336, 9263, 1419>>, e |-> -52],
          [m |-> <<14831, 15336, 9263, 1419>>, e |-> -53],
          [m |-> <<7057, 1235, 5665, 1178>>, e |-> -54],
          Zero >>,
       << [m |-> <<3379, 8118, 1055, 1648>>, e |-> -52],
          [m |-> <<8312, 899, 9231, 1876>>, e |-> -53],
          [m |-> <<5202, 10756, 2799, 1046>>, e |-> -53],
          [m |-> <<6690, 7786, 16252, 1827>>, e |-> -55],
          Zero >>,
       << [m |-> <<8194, 10408, 12479, 1834>>, e |-> -52],
          [m |-> <<779, 10932, 16039, 1124>>, e |-> -52],
          [m |-> <<14831, 15336, 9263, 1419>>, e |-> -53],
          [m |-> <<6220, 13054, 12862, 1660>>, e |-> -54],
          [m |-> <<5749, 1938, 9473, 1493>>, e |-> -55],
          Zero >>,
       << [m |-> <<6743, 14537, 10026, 1992>>, e |-> -52],
          [m |-> <<15712, 15060, 13586, 1282>>, e |-> -52],
          [m |-> <<11930, 7210, 4358, 1735>>, e |-> -53],
          [m |-> <<208, 14785, 1525, 1146>>, e |-> -53],
          [m |-> <<13455, 9292, 3117, 1378>>, e |-> -54],
          [m |-> <<4779, 263, 13146, 1262>>, e |-> -55],
          Zero >>,
       << [m |-> <<11123, 15598, 11043, 1064>>, e |-> -51],
          [m |-> <<14831, 15336, 9263, 1419>>, e |-> -52],
          [m |-> <<10168, 7762, 12096, 2008>>, e |-> -53],
          [m |-> <<14831, 15336, 9263, 1419>>, e |-> -53],
          [m |-> <<9935, 10396, 2209, 1925>>, e |-> -54],
          [m |-> <<7057, 1235, 5665, 1178>>, e |-> -54],
          [m |-> <<9338, 2207, 14568, 1093>>, e |-> -55],
          Zero >>,
       << [m |-> <<779, 10932, 16039, 1124>>, e |-> -51],
          [m |-> <<10526, 6003, 2871, 1540>>, e |-> -52],
          [m |-> <<779, 10932, 16039, 1124>>, e |-> -52],
          [m |-> <<6220, 13054, 12862, 1660>>, e |-> -53],
          [m |-> <<12740, 11107, 12895, 1203>>, e |-> -53],
          [m |-> <<6220, 13054, 12862, 1660>>, e |-> -54],
          [m |-> <<12025, 12922, 6289, 1029>>, e |-> -54],
          [m |-> <<13030, 14507, 12406, 1929>>, e |-> -56],
          Zero >> >>

EPSILON == [m |-> <<11661, 727, 12154, 1073>>, e |-> -72]

\* log(document_id_orders_.size() / static_cast<double>(documents_number))
CalculateIDF(documents_number) ==
    Log[Len(document_id_orders_)][documents_number]

\* relevance[document_id] += idf * tf_value, word after word, from 0.0
RECURSIVE SumRelevance(_, _)
SumRelevance(words, document_id) ==
    IF words = <<>> THEN Zero
    ELSE LET word == words[Len(words)]
             tf   == tf_[word]
             rest == SumRelevance(SubSeq(words, 1, Len(words) - 1), document_id)
         IN  IF document_id \in DOMAIN tf
             THEN DoubleAdd(rest, DoubleMul(CalculateIDF(Cardinality(DOMAIN tf)),
                                            tf[document_id]))
             ELSE rest

\* the Document of each id of ids, in their order
RECURSIVE Matched(_, _)
Matched(ids, plus_words) ==
    IF ids = <<>> THEN <<>>
    ELSE << [id        |-> Head(ids),
             relevance |-> SumRelevance(plus_words, Head(ids)),
             rating    |-> document_id_to_rating_and_rating_[Head(ids)].rating,
             status    |-> document_id_to_rating_and_rating_[Head(ids)].status] >>
             \o Matched(Tail(ids), plus_words)

\* a slip in FindAllDocuments: a document of relevance 0.0 is not emitted
FindAllDocumentsPositive(query_words) ==
    LET plus      == {w \in query_words.plus_words : w \in DOMAIN tf_}
        minus     == {w \in query_words.minus_words : w \in DOMAIN tf_}
        relevance == UNION {DOMAIN tf_[w] : w \in plus}
        erased    == UNION {DOMAIN tf_[w] : w \in minus}
        ids       == IdsInOrder({d \in relevance \ erased :
                                    SumRelevance(InOrder(plus), d) # Zero})
    IN  IF \E i \in 1..Len(ids) : ids[i] \notin DOMAIN document_id_to_rating_and_rating_
        THEN [thrown |-> TRUE, documents |-> <<>>]
        ELSE [thrown |-> FALSE, documents |-> Matched(ids, InOrder(plus))]

\* the matched documents in the order of the relevance map (by id), or
\* thrown = TRUE when document_id_to_rating_and_rating_.at throws
FindAllDocuments(query_words) ==
    LET plus      == {w \in query_words.plus_words : w \in DOMAIN tf_}
        minus     == {w \in query_words.minus_words : w \in DOMAIN tf_}
        relevance == UNION {DOMAIN tf_[w] : w \in plus}
        erased    == UNION {DOMAIN tf_[w] : w \in minus}
        ids       == IdsInOrder(relevance \ erased)
    IN  IF \E i \in 1..Len(ids) : ids[i] \notin DOMAIN document_id_to_rating_and_rating_
        THEN [thrown |-> TRUE, documents |-> <<>>]
        ELSE [thrown |-> FALSE, documents |-> Matched(ids, InOrder(plus))]

(***************************************************************************)
(* Ranking                                                                 *)
(***************************************************************************)
\* the comparator handed to sort: lhs goes before rhs
Before(lhs, rhs) ==
    \/ DoubleLess(rhs.relevance, lhs.relevance)
    \/ /\ DoubleLess(DoubleAbsDiff(lhs.relevance, rhs.relevance), EPSILON)
       /\ lhs.rating > rhs.rating

\* for each of the places 1 .. n, the number of places that before, the pairs
\* the comparator orders, puts before it
RECURSIVE Tally(_, _, _)
Tally(before, n, i) ==
    IF i > n THEN <<>>
    ELSE <<Cardinality({z \in 1..n : <<z, i>> \in before})>> \o Tally(before, n, i + 1)

\* before is a strict weak ordering of the places, as sort requires of its
\* comparator: it is one exactly when it orders two places as the numbers of
\* places before them do
StrictWeakOrdering(before, tally) ==
    \A x, y \in 1..Len(tally) : <<x, y>> \in before <=> tally[x] < tally[y]

\* the arrangements of the places S; with ordered, only those that put no
\* place after one it goes before
RECURSIVE Arrangements(_, _, _)
Arrangements(S, tally, ordered) ==
    IF S = {} THEN {<<>>}
    ELSE UNION {{<<x>> \o rest : rest \in Arrangements(S \ {x}, tally, ordered)} :
                   x \in {y \in S : ordered => \A z \in S : tally[y] <= tally[z]}}

\* What std::sort may leave in the vector: equivalent documents in any order
\* (the sort is not stable); when the comparator is no strict weak ordering of
\* the documents the behaviour is undefined, and the documents are left in
\* some arrangement, any of them.
Sort(matched_documents) ==
    LET places == 1..Len(matched_documents)
        Sorted(tally, ordered) ==
            {[i \in places |-> matched_documents[order[i]]] :
                order \in Arrangements(places, tally, ordered)}
    IN  UNION {UNION {UNION {Sorted(tally, ordered) :
                                ordered \in {StrictWeakOrdering(before, tally)}} :
                         tally \in {Tally(before, Len(matched_documents), 1)}} :
                  before \in {{pair \in places \X places :
                                  Before(matched_documents[pair[1]],
                                         matched_documents[pair[2]])}}}

\* the filter of FindTopDocuments(raw_query): status_ == status, status being
\* DocumentStatus::ACTUAL
ActualStatusFilter == [kind |-> "status", status |-> "ACTUAL"]

\* a caller's predicate over (document_id, status, rating)
Filter(filter, document_id, status, rating) ==
    CASE filter.kind = "status"  -> status = filter.status
      [] filter.kind = "id"      -> document_id = filter.id
      [] filter.kind = "even_id" -> document_id % 2 = 0
      [] filter.kind = "rating"  -> rating > 0

\* erase(remove_if(.., !filter), end)
RemoveIfNot(matched_documents, filter) ==
    SelectSeq(matched_documents,
              LAMBDA doc : Filter(filter, doc.id, doc.status, doc.rating))

\* resize(MAX_RESULT_DOCUMENT_COUNT) of a longer vector
Resize(matched_documents) ==
    IF Len(matched_documents) > MAX_RESULT_DOCUMENT_COUNT
    THEN SubSeq(matched_documents, 1, MAX_RESULT_DOCUMENT_COUNT)
    ELSE matched_documents

\* a slip in FindTopDocuments: the vector cut before it is filtered
TopDocumentsCutFirst(sorted_documents, filter) ==
    RemoveIfNot(Resize(sorted_documents), filter)

\* what FindTopDocuments does with the sorted vector
TopDocuments(sorted_documents, filter) ==
    Resize(RemoveIfNot(sorted_documents, filter))

\* the outcomes FindTopDocuments(raw_query, filter) may have in this state
FindTopDocumentsOutcomes(raw_query, filter) ==
    LET query_words == ParseQuery(raw_query)
    IN  IF query_words.thrown
        THEN {[outcome |-> "invalid_argument", documents |-> <<>>]}
        ELSE UNION
            {IF matched.thrown
             THEN {[outcome |-> "out_of_range", documents |-> <<>>]}
             ELSE {[outcome |-> "ok", documents |-> TopDocuments(sorted, filter)] :
                      sorted \in Sort(matched.documents)} :
                 matched \in {FindAllDocuments(query_words)}}

(***************************************************************************)
(* Matching, lookup                                                        *)
(***************************************************************************)
\* a slip in MatchDocument: find in place of at, no words for an id not stored
MatchDocumentOutcomeFind(raw_query, document_id) ==
    LET query == ParseQuery(raw_query)
    IN  IF query.thrown
        THEN [outcome |-> "invalid_argument", words |-> <<>>, status |-> "none"]
        ELSE IF document_id \notin DOMAIN document_id_to_rating_and_rating_
        THEN [outcome |-> "ok", words |-> <<>>, status |-> "ACTUAL"]
        ELSE [outcome |-> "ok",
              words |-> InOrder({word \in query.plus_words :
                                    /\ word \in DOMAIN tf_
                                    /\ document_id \in DOMAIN tf_[word]}),
              status |-> document_id_to_rating_and_rating_[document_id].status]

\* the outcome of MatchDocument(raw_query, document_id) in this state
MatchDocumentOutcome(raw_query, document_id) ==
    LET query == ParseQuery(raw_query)
        Throw(what) == [outcome |-> what, words |-> <<>>, status |-> "none"]
    IN  IF query.thrown THEN Throw("invalid_argument")
        ELSE IF document_id \notin DOMAIN document_id_to_rating_and_rating_
        THEN Throw("out_of_range")
        ELSE
        LET status == document_id_to_rating_and_rating_[document_id].status
            minus  == InOrder(query.minus_words)
            \* the minus words at which the loop ends: tf_.at throws, or the
            \* document has the word
            ends   == {i \in 1..Len(minus) :
                          \/ minus[i] \notin DOMAIN tf_
                          \/ document_id \in DOMAIN tf_[minus[i]]}
            first  == CHOOSE i \in ends : \A j \in ends : i <= j
            matched_words ==
                {word \in query.plus_words :
                     word \in DOMAIN tf_ /\ document_id \in DOMAIN tf_[word]}
        IN  IF ends # {}
            THEN IF minus[first] \notin DOMAIN tf_
                 THEN Throw("out_of_range")
                 ELSE [outcome |-> "ok", words |-> <<>>, status |-> status]
            ELSE [outcome |-> "ok", words |-> InOrder(matched_words),
                  status |-> status]

\* a slip in GetDocumentId: the bound checked with > in place of >=
GetDocumentIdOutcomeOffByOne(index) ==
    IF index < 0 \/ index > Len(document_id_orders_)
    THEN [outcome |-> "out_of_range", id |-> -1]
    ELSE IF index = Len(document_id_orders_)
    THEN [outcome |-> "ok", id |-> 0]
    ELSE [outcome |-> "ok", id |-> document_id_orders_[index + 1]]

\* the outcome of GetDocumentId(index): document_id_orders_.at(index)
GetDocumentIdOutcome(index) ==
    IF index < 0 \/ index >= Len(document_id_orders_)
    THEN [outcome |-> "out_of_range", id |-> -1]
    ELSE [outcome |-> "ok", id |-> document_id_orders_[index + 1]]

(***************************************************************************)
(* The operations                                                          *)
(***************************************************************************)
\* SearchServer(const Container& stop_words); SearchServer() is the empty one
SearchServer(stop_words) ==
    LET uniquie_stop_words    == MakeUniqueNonEmptyStrings(stop_words)
        has_invalid_stop_word == \E word \in uniquie_stop_words : IsInvalid(word)
    IN  /\ constructed = ~has_invalid_stop_word
        /\ stop_words_ = IF has_invalid_stop_word THEN {} ELSE uniquie_stop_words
        /\ tf_ = <<>>
        /\ document_id_to_rating_and_rating_ = <<>>
        /\ document_id_orders_ = <<>>
        /\ last = [op |-> "SearchServer", stop_words |-> stop_words,
                   outcome |-> IF has_invalid_stop_word
                               THEN "invalid_argument" ELSE "ok"]

\* SearchServer(const string& stop_words): the words of the text
SearchServerOfText(stop_words) == SearchServer(SplitIntoWords(stop_words))

\* a slip in AddDocument: the text is tested after its words are indexed
AddDocumentLateCheck(document_id, document, status, ratings) ==
    /\ constructed
    /\ IF \/ document_id < 0
          \/ document_id \in DOMAIN document_id_to_rating_and_rating_
       THEN /\ last' = [op |-> "AddDocument", document_id |-> document_id,
                        document |-> document, status |-> status,
                        ratings |-> ratings, outcome |-> "invalid_argument"]
            /\ UNCHANGED server
       ELSE LET words == SplitIntoWordsNoStop(document)
                Occurrences(word) ==
                    Cardinality({i \in 1..Len(words) : words[i] = word})
                Had(word) == IF word \in DOMAIN tf_ THEN DOMAIN tf_[word] ELSE {}
            IN  /\ tf_' =
                       [word \in DOMAIN tf_ \cup Range(words) |->
                           IF word \in Range(words)
                           THEN [id \in Had(word) \cup {document_id} |->
                                    IF id = document_id
                                    THEN Repeated(Inverse(Len(words)),
                                                  Occurrences(word))
                                    ELSE tf_[word][id]]
                           ELSE tf_[word]]
                /\ IF IsInvalid(document)
                   THEN /\ last' = [op |-> "AddDocument",
                                    document_id |-> document_id,
                                    document |-> document, status |-> status,
                                    ratings |-> ratings,
                                    outcome |-> "invalid_argument"]
                        /\ UNCHANGED <<constructed, stop_words_,
                                       document_id_to_rating_and_rating_,
                                       document_id_orders_>>
                   ELSE \E rating \in ComputeAverageRating(ratings) :
                        /\ document_id_to_rating_and_rating_' =
                               [id \in DOMAIN document_id_to_rating_and_rating_
                                        \cup {document_id} |->
                                   IF id = document_id
                                   THEN [rating |-> rating, status |-> status]
                                   ELSE document_id_to_rating_and_rating_[id]]
                        /\ document_id_orders_' =
                               Append(document_id_orders_, document_id)
                        /\ last' = [op |-> "AddDocument",
                                    document_id |-> document_id,
                                    document |-> document, status |-> status,
                                    ratings |-> ratings, outcome |-> "ok"]
                        /\ UNCHANGED <<constructed, stop_words_>>

\* a slip in AddDocument: an id stored already is not refused, and the
\* document is stored over the one that was there
AddDocumentOverwrite(document_id, document, status, ratings) ==
    /\ constructed
    /\ IF document_id < 0 \/ IsInvalid(document)
       THEN /\ last' = [op |-> "AddDocument", document_id |-> document_id,
                        document |-> document, status |-> status,
                        ratings |-> ratings, outcome |-> "invalid_argument"]
            /\ UNCHANGED server
       ELSE LET words == SplitIntoWordsNoStop(document)
                Occurrences(word) ==
                    Cardinality({i \in 1..Len(words) : words[i] = word})
                Had(word) == IF word \in DOMAIN tf_ THEN DOMAIN tf_[word] ELSE {}
            IN  \E rating \in ComputeAverageRating(ratings) :
                /\ document_id_to_rating_and_rating_' =
                       [id \in DOMAIN document_id_to_rating_and_rating_ \cup {document_id} |->
                           IF id = document_id
                           THEN [rating |-> rating, status |-> status]
                           ELSE document_id_to_rating_and_rating_[id]]
                /\ tf_' =
                       [word \in DOMAIN tf_ \cup Range(words) |->
                           IF word \in Range(words)
                           THEN [id \in Had(word) \cup {document_id} |->
                                    IF id = document_id
                                    THEN Repeated(Inverse(Len(words)),
                                                  Occurrences(word))
                                    ELSE tf_[word][id]]
                           ELSE tf_[word]]
                /\ document_id_orders_' = Append(document_id_orders_, document_id)
                /\ last' = [op |-> "AddDocument", document_id |-> document_id,
                            document |-> document, status |-> status,
                            ratings |-> ratings, outcome |-> "ok"]
                /\ UNCHANGED <<constructed, stop_words_>>

AddDocument(document_id, document, status, ratings) ==
    /\ constructed
    /\ IF \/ document_id < 0
          \/ document_id \in DOMAIN document_id_to_rating_and_rating_
          \/ IsInvalid(document)
       THEN /\ last' = [op |-> "AddDocument", document_id |-> document_id,
                        document |-> document, status |-> status,
                        ratings |-> ratings, outcome |-> "invalid_argument"]
            /\ UNCHANGED server
       ELSE LET words == SplitIntoWordsNoStop(document)
                Occurrences(word) ==
                    Cardinality({i \in 1..Len(words) : words[i] = word})
            IN  \E rating \in ComputeAverageRating(ratings) :
                /\ document_id_to_rating_and_rating_' =
                       [id \in DOMAIN document_id_to_rating_and_rating_ \cup {document_id} |->
                           IF id = document_id
                           THEN [rating |-> rating, status |-> status]
                           ELSE document_id_to_rating_and_rating_[id]]
                /\ tf_' =
                       [word \in DOMAIN tf_ \cup Range(words) |->
                           IF word \in Range(words)
                           THEN [id \in (IF word \in DOMAIN tf_
                                         THEN DOMAIN tf_[word] ELSE {})
                                        \cup {document_id} |->
                                    IF id = document_id
                                    THEN Repeated(Inverse(Len(words)),
                                                  Occurrences(word))
                                    ELSE tf_[word][id]]
                           ELSE tf_[word]]
                /\ document_id_orders_' = Append(document_id_orders_, document_id)
                /\ last' = [op |-> "AddDocument", document_id |-> document_id,
                            document |-> document, status |-> status,
                            ratings |-> ratings, outcome |-> "ok"]
                /\ UNCHANGED <<constructed, stop_words_>>

FindTopDocuments(raw_query, filter) ==
    /\ constructed
    /\ \E found \in FindTopDocumentsOutcomes(raw_query, filter) :
           last' = [op |-> "FindTopDocuments", raw_query |-> raw_query,
                    filter |-> filter, outcome |-> found.outcome,
                    documents |-> found.documents]
    /\ UNCHANGED server

\* a slip in MatchDocument: tf_[word] in place of tf_.at(word) on a method
\* not const, which stores an empty map for a minus word that is not a key
MatchDocumentInserting(raw_query, document_id) ==
    /\ constructed
    /\ LET query  == ParseQuery(raw_query)
           known  == document_id \in DOMAIN document_id_to_rating_and_rating_
           minus  == InOrder(query.minus_words)
           hits   == {i \in 1..Len(minus) :
                         /\ minus[i] \in DOMAIN tf_
                         /\ document_id \in DOMAIN tf_[minus[i]]}
           looked == IF hits = {} THEN 1..Len(minus)
                     ELSE 1..(CHOOSE i \in hits : \A j \in hits : i <= j)
           absent == IF query.thrown \/ ~known THEN {}
                     ELSE {minus[i] : i \in looked} \ DOMAIN tf_
           status == IF known
                     THEN document_id_to_rating_and_rating_[document_id].status
                     ELSE "none"
           words  == IF hits # {} THEN <<>>
                     ELSE InOrder({word \in query.plus_words :
                                      /\ word \in DOMAIN tf_
                                      /\ document_id \in DOMAIN tf_[word]})
           Call(outcome, matched_words, matched_status) ==
               [op |-> "MatchDocument", raw_query |-> raw_query,
                document_id |-> document_id, outcome |-> outcome,
                words |-> matched_words, status |-> matched_status]
       IN  /\ last' = IF query.thrown THEN Call("invalid_argument", <<>>, "none")
                      ELSE IF ~known THEN Call("out_of_range", <<>>, "none")
                      ELSE Call("ok", words, status)
           /\ tf_' = [word \in DOMAIN tf_ \cup absent |->
                         IF word \in absent THEN <<>> ELSE tf_[word]]
    /\ UNCHANGED <<constructed, stop_words_, document_id_to_rating_and_rating_,
                   document_id_orders_>>

MatchDocument(raw_query, document_id) ==
    /\ constructed
    /\ LET matched == MatchDocumentOutcome(raw_query, document_id)
       IN  last' = [op |-> "MatchDocument", raw_query |-> raw_query,
                    document_id |-> document_id, outcome |-> matched.outcome,
                    words |-> matched.words, status |-> matched.status]
    /\ UNCHANGED server

GetDocumentId(index) ==
    /\ constructed
    /\ LET got == GetDocumentIdOutcome(index)
       IN  last' = [op |-> "GetDocumentId", index |-> index,
                    outcome |-> got.outcome, id |-> got.id]
    /\ UNCHANGED server

GetDocumentCountCall ==
    /\ constructed
    /\ last' = [op |-> "GetDocumentCount", outcome |-> "ok",
                count |-> GetDocumentCount]
    /\ UNCHANGED server

(***************************************************************************)
(* The general driver: any call, in any order, on arguments from small     *)
(* sets                                                                    *)
(***************************************************************************)
StopWordInputs ==
    { <<>>,
      << <<98>>, <<>>, <<45>>, <<97>>, <<98>> >>,   \* "b", "", "-", "a", "b"
      << <<97>>, <<98, 1>> >> }                \* "a", "b\x01"

DocumentIds == -1..MaxId

\* text, status and ratings of a document
Documents ==
    { [text |-> <<97, 32, 98>>,                \* "a b"
       status |-> "ACTUAL", ratings |-> <<8, -3>>],
      [text |-> <<32, 97, 32, 32, 97, 32, 99>>, \* " a  a c"
       status |-> "BANNED", ratings |-> <<>>],
      [text |-> <<97, 9, 98>>,                 \* "a\tb"
       status |-> "ACTUAL", ratings |-> <<8, -3>>] }

Queries ==
    { <<>>,                                    \* ""
      <<97, 32, 99, 32, 45, 98>>,              \* "a c -b"
      <<97, 32, 45, 48, 32, 45, 98>>,          \* "a -0 -b"
      <<97, 32, 45, 98>>,                      \* "a -b"
      <<45>>,                                  \* "-"
      <<119, 45, 45, 120>>,                    \* "w--x"
      <<119, 32, 45, 45, 120>> }               \* "w --x"

Filters == {ActualStatusFilter, [kind |-> "even_id"]}

Init == \E stop_words \in StopWordInputs : SearchServer(stop_words)

Next ==
    \/ \E document_id \in DocumentIds, document \in Documents :
           AddDocument(document_id, document.text, document.status,
                       document.ratings)
    \/ \E raw_query \in Queries, filter \in Filters :
           FindTopDocuments(raw_query, filter)
    \/ \E raw_query \in Queries, document_id \in DocumentIds :
           MatchDocument(raw_query, document_id)
    \/ \E i \in -1..(MaxId + 1) : GetDocumentId(i)
    \/ GetDocumentCountCall

Spec == Init /\ [][Next]_vars

(***************************************************************************)
(* The parser's driver: queries of up to MaxQueryWords words, each of one  *)
(* of the shapes the parser tells apart, on an index of at most one        *)
(* document                                                                *)
(***************************************************************************)
QueryShapes ==
    { <<99>>,                                  \* "c"
      <<45, 97>>,                              \* "-a"
      <<97, 45>>,                              \* "a-"
      <<45>>,                                  \* "-"
      <<45, 45, 97>>,                          \* "--a"
      <<99, 1>> }                              \* "c\x01"

\* the words joined by one space each
RECURSIVE Join(_)
Join(words) ==
    IF words = <<>> THEN <<>>
    ELSE IF Len(words) = 1 THEN Head(words)
    ELSE Head(words) \o <<32>> \o Join(Tail(words))

ShapedQueries ==
    {Join(words) : words \in UNION {[1..n -> QueryShapes] : n \in 0..MaxQueryWords}}
        \cup { <<99, 9, 45, 97, 10>>,          \* "c\t-a\n"
               <<32, 45, 32>>,                 \* " - "
               <<97, 32, 45, 97>>,             \* "a -a"
               <<45, 99, 32, 99, 32, 45, 99>> } \* "-c c -c"

NextParse ==
    \/ AddDocument(0, <<99, 32, 97>>, "ACTUAL", <<1>>)
    \/ \E raw_query \in ShapedQueries :
           FindTopDocuments(raw_query, ActualStatusFilter)
    \/ \E raw_query \in ShapedQueries, document_id \in {0, 1} :
           MatchDocument(raw_query, document_id)

SpecParse == Init /\ [][NextParse]_vars

(***************************************************************************)
(* The ranking driver: up to MaxRankDocs documents with ids 0, 1, ... in   *)
(* turn, as CreateSearchServer adds them, with texts and ratings that tie, *)
(* among them texts of one word written 1, 9 and 10 times                  *)
(***************************************************************************)
RankDocuments ==
    { [text |-> <<97>>, status |-> "ACTUAL", ratings |-> <<1>>],       \* "a"
      [text |-> <<97, 32, 97, 32, 97, 32, 97, 32, 97, 32, 97, 32, 97, 32, 97,
                  32, 97>>,                                          \* 9 times
       status |-> "ACTUAL", ratings |-> <<3>>],
      [text |-> <<97, 32, 97, 32, 97, 32, 97, 32, 97, 32, 97, 32, 97, 32, 97,
                  32, 97, 32, 97>>,                                  \* 10 times
       status |-> "BANNED", ratings |-> <<5>>],
      [text |-> <<97, 32, 98>>, status |-> "ACTUAL", ratings |-> <<5>>], \* "a b"
      [text |-> <<98>>, status |-> "ACTUAL", ratings |-> <<1>>] }      \* "b"

RankQueries ==
    { <<97>>,                                  \* "a"
      <<97, 32, 98>> }                         \* "a b"

RankFilters == {ActualStatusFilter, [kind |-> "rating"]}

NextRank ==
    \/ \E document \in RankDocuments :
           /\ Len(document_id_orders_) < MaxRankDocs
           /\ AddDocument(Len(document_id_orders_), document.text,
                          document.status, document.ratings)
    \/ \E raw_query \in RankQueries, filter \in RankFilters :
           FindTopDocuments(raw_query, filter)

SpecRank == Init /\ [][NextRank]_vars

(***************************************************************************)
(* The result-cap driver: up to MaxCapDocs documents with ids 0, 1, ... in *)
(* turn, the document with id i rated i                                    *)
(***************************************************************************)
CapDocuments ==
    { [text |-> <<97>>, status |-> "ACTUAL"],  \* "a"
      [text |-> <<98>>, status |-> "BANNED"] } \* "b"

CapQueries ==
    { <<97>>,                                  \* "a"
      <<97, 32, 98>> }                         \* "a b"

CapFilters ==
    { ActualStatusFilter,
      [kind |-> "status", status |-> "BANNED"],
      [kind |-> "even_id"] }

NextCap ==
    \/ \E document \in CapDocuments :
           /\ Len(document_id_orders_) < MaxCapDocs
           /\ AddDocument(Len(document_id_orders_), document.text,
                          document.status, <<Len(document_id_orders_)>>)
    \/ \E raw_query \in CapQueries, filter \in CapFilters :
           FindTopDocuments(raw_query, filter)

SpecCap == Init /\ [][NextCap]_vars

(***************************************************************************)
(* The rating driver: one document, with any list of up to MaxRatings      *)
(* ratings, read back by a query                                           *)
(***************************************************************************)
RatingValues == {-7, -1, 0, 2, 5, IntMax, IntMin}

RatingInputs == UNION {[1..n -> RatingValues] : n \in 0..MaxRatings}

NextRating ==
    \/ \E ratings \in RatingInputs : AddDocument(0, <<97>>, "ACTUAL", ratings)
    \/ FindTopDocuments(<<97>>, ActualStatusFilter)

SpecRating == Init /\ [][NextRating]_vars

(***************************************************************************)
(* The construction driver: a server made from any collection of up to     *)
(* MaxStopWords strings, or from a text, then documents and queries that   *)
(* show the stop words in use                                              *)
(***************************************************************************)
ConstructWords ==
    { <<>>,                                    \* ""
      <<97>>,                                  \* "a"
      <<98>>,                                  \* "b"
      <<97, 32, 98>>,                          \* "a b"
      <<200>>,                                 \* "\xc8"
      <<97, 9>>,                               \* "a\t"
      <<31>> }                                 \* "\x1f"

ConstructCollections == UNION {[1..n -> ConstructWords] : n \in 0..MaxStopWords}

ConstructTexts ==
    { <<97, 9, 98, 32, 32, 97>>,               \* "a\tb  a"
      <<97, 1, 32, 98>>,                       \* "a\x01 b"
      <<10>> }                                 \* "\n"

ConstructQueries ==
    { <<97>>,                                  \* "a"
      <<98, 32, 45, 200>> }                    \* "b -\xc8"

InitConstruct ==
    \/ \E stop_words \in ConstructCollections : SearchServer(stop_words)
    \/ \E stop_words \in ConstructTexts : SearchServerOfText(stop_words)

NextConstruct ==
    \/ \E document_id \in {0, 1} :
           AddDocument(document_id, <<97, 32, 98, 32, 200>>, "ACTUAL", <<1>>)
    \/ \E raw_query \in ConstructQueries :
           FindTopDocuments(raw_query, ActualStatusFilter)

SpecConstruct == InitConstruct /\ [][NextConstruct]_vars

(***************************************************************************)
(* The term frequency driver: two documents, ids 0 and 1 in turn, of texts *)
(* with "a" and "b" written 0 .. MaxRepeat times each                      *)
(***************************************************************************)
Copies(word, n) == [i \in 1..n |-> word]

TfTexts ==
    {Join(Copies(<<97>>, na) \o Copies(<<98>>, nb)) : na, nb \in 0..MaxRepeat}

NextTf ==
    \/ \E document \in TfTexts :
           /\ Len(document_id_orders_) < 2
           /\ AddDocument(Len(document_id_orders_), document, "ACTUAL", <<4, 1>>)
    \/ GetDocumentCountCall

SpecTf == Init /\ [][NextTf]_vars

(***************************************************************************)
(* Claims                                                                  *)
(***************************************************************************)
Registered == DOMAIN document_id_to_rating_and_rating_

\* the documents in the postings of a word
Postings(word) == IF word \in DOMAIN tf_ THEN DOMAIN tf_[word] ELSE {}

\* the ids of the documents of a result list
Ids(documents) == {documents[i].id : i \in 1..Len(documents)}

\* some minus-term of the query is in the postings of document d
MinusHit(raw_query, d) ==
    \E word \in ParseQuery(raw_query).minus_words : d \in Postings(word)

\* the text holds a byte 0 .. 31
HasControlCharacter(text) == \E i \in 1..Len(text) : text[i] \in 0..31

\* C1: if a minus-term of a valid query is in the postings of a registered
\* document d, then d is absent from the result of FindTopDocuments, whatever
\* the predicate, and MatchDocument on d returns an empty list of words.
C1_MinusExclusionIsAbsolute ==
    /\ (last.op = "FindTopDocuments" /\ ~ParseQuery(last.raw_query).thrown) =>
           /\ last.outcome = "ok"
           /\ \A d \in Registered :
                  MinusHit(last.raw_query, d) => d \notin Ids(last.documents)
    /\ ( /\ last.op = "MatchDocument"
         /\ ~ParseQuery(last.raw_query).thrown
         /\ last.document_id \in Registered
         /\ MinusHit(last.raw_query, last.document_id) ) =>
           (last.outcome = "ok" /\ last.words = <<>>)

\* C1, the half that holds: the result of FindTopDocuments has no document
\* with a minus-term of the query in its postings
C1_QueryExcludesMinusHits ==
    (last.op = "FindTopDocuments" /\ ~ParseQuery(last.raw_query).thrown) =>
        /\ last.outcome = "ok"
        /\ \A d \in Registered :
               MinusHit(last.raw_query, d) => d \notin Ids(last.documents)

\* C2: AddDocument throws exactly when the id is negative, or registered
\* already, or the text holds a control character; and then the server is as
\* it was before the call.
C2_AddFailsExactlyWhenInvalidAndChangesNothing ==
    [][ last'.op = "AddDocument" =>
            /\ last'.outcome = "invalid_argument" <=>
                   \/ last'.document_id < 0
                   \/ last'.document_id \in Registered
                   \/ HasControlCharacter(last'.document)
            /\ last'.outcome = "invalid_argument" => UNCHANGED server
            /\ last'.outcome # "invalid_argument" =>
                   /\ last'.outcome = "ok"
                   /\ last'.document_id \in Registered' ]_vars

\* C2, its case: an add of a registered id with a clean text has failed
C2_Witness ==
    /\ last.op = "AddDocument"
    /\ last.outcome = "invalid_argument"
    /\ last.document_id \in Registered
    /\ ~HasControlCharacter(last.document)

\* C3, as claimed: FindTopDocuments("w--x") throws in every state
C3_DoubleMinusInsideAWordIsRejected ==
    (last.op = "FindTopDocuments" /\ last.raw_query = <<119, 45, 45, 120>>) =>
        last.outcome = "invalid_argument"

\* C3, amended: FindTopDocuments("w--x") returns in every state (the word
\* does not begin with '-'); it is a word beginning with "--", as in
\* "w --x", that makes the call throw, unless that word is a stop word.
C3_DoubleMinusIsRejectedOnlyAtTheStartOfAWord ==
    /\ (last.op = "FindTopDocuments" /\ last.raw_query = <<119, 45, 45, 120>>) =>
           last.outcome = "ok"
    /\ ( /\ last.op = "FindTopDocuments"
         /\ last.raw_query = <<119, 32, 45, 45, 120>>
         /\ <<45, 45, 120>> \notin stop_words_ ) =>
           last.outcome = "invalid_argument"

\* C3, its case: both queries have been made on an index that holds documents
C3_Witness ==
    /\ last.op = "FindTopDocuments"
    /\ last.raw_query = <<119, 45, 45, 120>>
    /\ last.outcome = "ok"
    /\ Registered # {}

\* the shapes of a word that C4 names
Malformed(word) ==
    \/ word = <<45>>
    \/ Len(word) >= 2 /\ word[1] = 45 /\ word[2] = 45
    \/ HasControlCharacter(word)

\* C4: FindTopDocuments and MatchDocument throw invalid_argument exactly when
\* some word of the query that is no stop word is "-", or begins with "--",
\* or holds a control character.
C4_QueryIsRejectedExactlyWhenAWordIsMalformed ==
    last.op \in {"FindTopDocuments", "MatchDocument"} =>
        (last.outcome = "invalid_argument" <=>
             \E word \in Range(SplitIntoWordsNoStop(last.raw_query)) :
                 Malformed(word))

\* C4, its case: "-a a-", a well-formed minus word and a word that ends
\* with "-", has been answered on an index that holds a document
C4_Witness ==
    /\ last.op = "FindTopDocuments"
    /\ last.outcome = "ok"
    /\ last.raw_query = <<45, 97, 32, 97, 45>>
    /\ Registered # {}

\* C5: on a registered document d with none of the minus-terms of a valid
\* query in its postings, MatchDocument returns the plus-terms of the query
\* that have d in their postings, and the status stored for d.
C5_MatchReturnsThePlusTermsOfTheDocument ==
    ( /\ last.op = "MatchDocument"
      /\ ~ParseQuery(last.raw_query).thrown
      /\ last.document_id \in Registered
      /\ ~MinusHit(last.raw_query, last.document_id) ) =>
        /\ last.outcome = "ok"
        /\ Range(last.words) =
               {word \in ParseQuery(last.raw_query).plus_words :
                    last.document_id \in Postings(word)}
        /\ last.status =
               document_id_to_rating_and_rating_[last.document_id].status

\* C5, where no minus-term of the query is missing from the index: the part
\* of C5 that holds
C5_MatchWithIndexedMinusTerms ==
    ( /\ last.op = "MatchDocument"
      /\ ~ParseQuery(last.raw_query).thrown
      /\ last.document_id \in Registered
      /\ ~MinusHit(last.raw_query, last.document_id)
      /\ ParseQuery(last.raw_query).minus_words \subseteq DOMAIN tf_ ) =>
        /\ last.outcome = "ok"
        /\ Range(last.words) =
               {word \in ParseQuery(last.raw_query).plus_words :
                    last.document_id \in Postings(word)}
        /\ last.status =
               document_id_to_rating_and_rating_[last.document_id].status

\* C10: MatchDocument with a valid query and an id that is not registered
\* throws out_of_range, whatever the query.
C10_MatchOfAnUnknownDocumentThrows ==
    ( /\ last.op = "MatchDocument"
      /\ ~ParseQuery(last.raw_query).thrown
      /\ last.document_id \notin Registered ) =>
        last.outcome = "out_of_range"

\* C10, its case: a query with minus-terms matched against an id that is not
\* registered, on an index that holds a document
C10_Witness ==
    /\ last.op = "MatchDocument"
    /\ last.document_id \notin Registered
    /\ last.document_id >= 0
    /\ ParseQuery(last.raw_query).minus_words # {}
    /\ ~ParseQuery(last.raw_query).thrown
    /\ last.outcome = "out_of_range"
    /\ Registered # {}

\* C6: in a result of FindTopDocuments, of two neighbours the first has the
\* greater relevance, or the two relevances are within EPSILON of each other
\* and the first has a rating no less than the second.
C6_ResultsAreRanked ==
    (last.op = "FindTopDocuments" /\ last.outcome = "ok") =>
        \A i \in 1..(Len(last.documents) - 1) :
            LET a == last.documents[i]
                b == last.documents[i + 1]
            IN  \/ DoubleLess(b.relevance, a.relevance)
                \/ /\ DoubleLess(DoubleAbsDiff(a.relevance, b.relevance), EPSILON)
                   /\ a.rating >= b.rating

\* C6, the run that breaks it: documents 0, 1 and 2 are the word "a" 9 times,
\* 10 times and once, rated 3, 5 and 1, document 1 BANNED, and document 3 is
\* "b". The three term frequencies of "a" are 1 + 2^-52, 1 - 2^-53 and 1, so
\* the comparator puts 0 before 2 before 1 by relevance and 1 before 0 before
\* 2 by rating: sort leaves 2, 1, 0 and the result for ACTUAL is 2 (rating 1)
\* before 0 (rating 3, greater relevance).
C6_FailingRun ==
    /\ last.op = "FindTopDocuments"
    /\ last.outcome = "ok"
    /\ last.raw_query = <<97>>
    /\ last.filter = ActualStatusFilter
    /\ document_id_orders_ = <<0, 1, 2, 3>>
    /\ Postings(<<97>>) = {0, 1, 2}
    /\ tf_[<<97>>][2].m = <<0, 0, 0, 2 ^ 10>>
    /\ tf_[<<97>>][2].e = -52
    /\ DoubleLess(tf_[<<97>>][1], tf_[<<97>>][2])
    /\ DoubleLess(tf_[<<97>>][2], tf_[<<97>>][0])
    /\ [i \in 1..Len(last.documents) |-> last.documents[i].id] = <<2, 0>>
    /\ [i \in 1..Len(last.documents) |-> last.documents[i].rating] = <<1, 3>>
    /\ DoubleLess(last.documents[1].relevance, last.documents[2].relevance)

\* the registered documents with a plus-term of the query in their postings
\* and none of its minus-terms
Matching(raw_query) ==
    {d \in Registered :
         /\ \E word \in ParseQuery(raw_query).plus_words : d \in Postings(word)
         /\ ~MinusHit(raw_query, d)}

\* the matching documents that the predicate lets through
Passing(raw_query, filter) ==
    {d \in Matching(raw_query) :
         Filter(filter, d, document_id_to_rating_and_rating_[d].status,
                document_id_to_rating_and_rating_[d].rating)}

Min(a, b) == IF a < b THEN a ELSE b

\* C7: if k matching documents pass the predicate, FindTopDocuments returns
\* min(k, 5) documents, each of them passing the predicate.
C7_FilteredThenCapped ==
    (last.op = "FindTopDocuments" /\ last.outcome = "ok") =>
        /\ Len(last.documents) =
               Min(Cardinality(Passing(last.raw_query, last.filter)),
                   MAX_RESULT_DOCUMENT_COUNT)
        /\ Len(last.documents) <= MAX_RESULT_DOCUMENT_COUNT
        /\ Ids(last.documents) \subseteq Passing(last.raw_query, last.filter)
        /\ \A i \in 1..Len(last.documents) :
               last.filter.kind = "status" =>
                   last.documents[i].status = last.filter.status

\* C7, its case: more than 5 documents pass the predicate, one that matches
\* does not, and 5 are returned
C7_Witness ==
    /\ last.op = "FindTopDocuments"
    /\ last.outcome = "ok"
    /\ Cardinality(Passing(last.raw_query, last.filter)) > MAX_RESULT_DOCUMENT_COUNT
    /\ Matching(last.raw_query) # Passing(last.raw_query, last.filter)
    /\ Len(last.documents) = MAX_RESULT_DOCUMENT_COUNT

\* the sum of a list of ratings, added from the first on
RECURSIVE RatingSum(_)
RatingSum(ratings) ==
    IF ratings = <<>> THEN 0
    ELSE RatingSum(SubSeq(ratings, 1, Len(ratings) - 1)) + ratings[Len(ratings)]

\* the add of last succeeded, with a sum of ratings that stayed within int
AddedWithinInt ==
    /\ last.op = "AddDocument"
    /\ last.outcome = "ok"
    /\ ~Accumulate(last.ratings, 0).overflow

StoredRating == document_id_to_rating_and_rating_[last.document_id].rating

\* C8, as claimed: the rating stored is the sum of the ratings divided by
\* their number and rounded down, 0 for no ratings.
C8_RatingIsTheFloorOfTheAverage ==
    AddedWithinInt =>
        StoredRating = IF last.ratings = <<>> THEN 0
                       ELSE RatingSum(last.ratings) \div Len(last.ratings)

\* C8, amended: the rating stored is the sum of the ratings divided by their
\* number and rounded toward zero (down for a sum that is not negative, up
\* for a negative one), 0 for no ratings.
C8_RatingIsTheAverageRoundedTowardZero ==
    AddedWithinInt =>
        LET sum   == RatingSum(last.ratings)
            count == Len(last.ratings)
        IN  StoredRating = IF count = 0 THEN 0
                           ELSE IF sum >= 0 THEN sum \div count
                           ELSE (sum + (count - 1)) \div count

\* C8, its case: ratings with a negative sum that their number does not divide
C8_Witness ==
    /\ AddedWithinInt
    /\ last.ratings # <<>>
    /\ RatingSum(last.ratings) < 0
    /\ RatingSum(last.ratings) % Len(last.ratings) # 0

\* C9: GetDocumentCount is the number of adds that succeeded, GetDocumentId(i)
\* is the id of the (i+1)-th of them for 0 <= i < GetDocumentCount and throws
\* out_of_range for any other i. Stated step by step: the count starts at 0;
\* an add that succeeds puts its id at the end and leaves the others where
\* they are; no other call changes anything; and the two calls answer from it.
C9_CountAndOrderOfSuccessfulAdds ==
    /\ GetDocumentCount = 0
    /\ [][ LET count == Len(document_id_orders_)
           IN  /\ (last'.op = "AddDocument" /\ last'.outcome = "ok") =>
                      /\ Len(document_id_orders_') = count + 1
                      /\ document_id_orders_'[count + 1] = last'.document_id
                      /\ \A i \in 1..count :
                             document_id_orders_'[i] = document_id_orders_[i]
               /\ ~(last'.op = "AddDocument" /\ last'.outcome = "ok") =>
                      document_id_orders_' = document_id_orders_
               /\ last'.op = "GetDocumentCount" => last'.count = count
               /\ last'.op = "GetDocumentId" =>
                      IF 0 <= last'.index /\ last'.index < count
                      THEN /\ last'.outcome = "ok"
                           /\ last'.id = document_id_orders_[last'.index + 1]
                      ELSE last'.outcome = "out_of_range" ]_vars

\* C9, its case: two documents added with the greater id first, and the
\* second of them looked up
C9_Witness ==
    /\ last.op = "GetDocumentId"
    /\ last.index = 1
    /\ last.outcome = "ok"
    /\ Len(document_id_orders_) = 2
    /\ document_id_orders_[1] > document_id_orders_[2]
    /\ last.id = document_id_orders_[2]

\* the query has words, and each is a stop word or '-' and a stop word
OnlyStopWords(raw_query) ==
    LET words == SplitIntoWords(raw_query)
    IN  /\ words # <<>>
        /\ \A i \in 1..Len(words) :
               \/ words[i] \in stop_words_
               \/ Head(words[i]) = 45 /\ Tail(words[i]) \in stop_words_

\* C11: no stop word is a key of the inverted index; no stop word is in the
\* plus words or the minus words of a parsed query, "-w" with w a stop word
\* being dropped; a query of stop words only, when it parses, returns no
\* documents.
C11_StopWordsAreExcluded ==
    /\ DOMAIN tf_ \cap stop_words_ = {}
    /\ last.op \in {"FindTopDocuments", "MatchDocument"} =>
           LET query == ParseQuery(last.raw_query)
           IN  (query.plus_words \cup query.minus_words) \cap stop_words_ = {}
    /\ ( /\ last.op = "FindTopDocuments"
         /\ OnlyStopWords(last.raw_query)
         /\ ~ParseQuery(last.raw_query).thrown ) =>
           (last.outcome = "ok" /\ last.documents = <<>>)

\* C11: documents with stop words in their text are indexed, and the query
\* "a -b", both words stop words, has been answered
C11_Witness ==
    /\ stop_words_ = {<<45>>, <<97>>, <<98>>}
    /\ DOMAIN tf_ = {<<99>>}
    /\ Cardinality(Registered) = 2
    /\ last.op = "FindTopDocuments"
    /\ last.raw_query = <<97, 32, 45, 98>>
    /\ last.outcome = "ok"
    /\ last.documents = <<>>

\* the postings of document d: its words and their term frequencies
PostingsOf(tf, d) == {<<word, tf[word][d]>> : word \in {w \in DOMAIN tf : d \in DOMAIN tf[w]}}

\* the places of document d in the list of ids
PlacesOf(orders, d) == {i \in 1..Len(orders) : orders[i] = d}

\* C12: a registered document keeps its rating, status, place and postings in
\* every step; a successful add stores the status it was given, a rating
\* ComputeAverageRating gives, the next place and the words of the text that
\* are not stop words; an add with an id registered already fails and
\* changes nothing.
C12_ADocumentIsNeverMutated ==
    [][ /\ \A d \in Registered :
               /\ d \in Registered'
               /\ document_id_to_rating_and_rating_'[d] =
                      document_id_to_rating_and_rating_[d]
               /\ PlacesOf(document_id_orders_', d) = PlacesOf(document_id_orders_, d)
               /\ PostingsOf(tf_', d) = PostingsOf(tf_, d)
        /\ (last'.op = "AddDocument" /\ last'.outcome = "ok") =>
               LET d == last'.document_id
               IN  /\ d \notin Registered
                   /\ document_id_to_rating_and_rating_'[d].status = last'.status
                   /\ document_id_to_rating_and_rating_'[d].rating \in
                          ComputeAverageRating(last'.ratings)
                   /\ PlacesOf(document_id_orders_', d) = {Len(document_id_orders_) + 1}
                   /\ {p[1] : p \in PostingsOf(tf_', d)} =
                          Range(SplitIntoWordsNoStop(last'.document))
        /\ (last'.op = "AddDocument" /\ last'.document_id \in Registered) =>
               (last'.outcome = "invalid_argument" /\ server' = server)
      ]_vars

\* C12: document 0 is stored as ACTUAL with words, another document has been
\* added after it, and an add of id 0 as BANNED has just failed
C12_Witness ==
    /\ Registered = {0, 1}
    /\ document_id_orders_ = <<0, 1>>
    /\ document_id_to_rating_and_rating_[0].rating = 2
    /\ document_id_to_rating_and_rating_[0].status = "ACTUAL"
    /\ PostingsOf(tf_, 0) # {}
    /\ last.op = "AddDocument"
    /\ last.document_id = 0
    /\ last.status = "BANNED"
    /\ last.outcome = "invalid_argument"

\* C13: the constructor throws exactly when a string of the collection that is
\* not empty holds a control character; then there is no server, and no call
\* on it; otherwise the stop words are the strings of the collection that are
\* not empty.
C13_ConstructionFailsExactlyOnAnInvalidStopWord ==
    /\ last.op = "SearchServer" =>
           LET supplied == Range(last.stop_words)
               invalid  == \E word \in supplied :
                               word # <<>> /\ HasControlCharacter(word)
           IN  /\ (last.outcome = "invalid_argument") <=> invalid
               /\ (last.outcome = "ok") <=> ~invalid
               /\ constructed <=> ~invalid
               /\ constructed => stop_words_ = supplied \ {<<>>}
    /\ ~constructed =>
           /\ last.op = "SearchServer"
           /\ stop_words_ = {}
           /\ tf_ = <<>>
           /\ document_id_to_rating_and_rating_ = <<>>
           /\ document_id_orders_ = <<>>

\* C13: the constructor has thrown on a collection of an empty string and a
\* string with a control character
C13_Witness ==
    /\ last.op = "SearchServer"
    /\ last.stop_words = << <<>>, <<97, 9>> >>
    /\ last.outcome = "invalid_argument"
    /\ ~constructed

\* the query of the call in progress, parsed
LastQuery == ParseQuery(last.raw_query)

Parsed == last.op \in {"FindTopDocuments", "MatchDocument"} /\ ~LastQuery.thrown

\* C14: the plus words and the minus words of a query that parses are
\* disjoint, also when the query names a word with and without a leading '-'.
C14_PlusAndMinusAreDisjoint ==
    Parsed => LastQuery.plus_words \cap LastQuery.minus_words = {}

\* C14, amended: a word is among the plus words and among the minus words
\* exactly when the query has it both without and with a leading '-',
\* neither being dropped as a stop word; the sets are disjoint otherwise.
C14_PlusAndMinusShareTheWordsNamedBothWays ==
    Parsed =>
        LET words == Range(SplitIntoWordsNoStop(last.raw_query))
            both  == {word \in words : /\ word \notin stop_words_
                                       /\ Head(word) # 45
                                       /\ <<45>> \o word \in words}
        IN  LastQuery.plus_words \cap LastQuery.minus_words = both

\* C14: the query "a -a" has been parsed, "a" not a stop word, and "a" is a
\* plus word and a minus word
C14_Witness ==
    /\ last.op = "FindTopDocuments"
    /\ last.raw_query = <<97, 32, 45, 97>>
    /\ last.outcome = "ok"
    /\ stop_words_ = {}
    /\ LastQuery.plus_words = {<<97>>}
    /\ LastQuery.minus_words = {<<97>>}
    /\ Registered # {}

\* the registered documents with a plus word of the query of the call in
\* progress in their postings, and no minus word
Surviving ==
    {d \in Registered :
        /\ \E word \in LastQuery.plus_words : d \in Postings(word)
        /\ \A word \in LastQuery.minus_words : d \notin Postings(word)}

\* every plus word of the query that document d has is in every document
OnlyCommonWords(d) ==
    \A word \in LastQuery.plus_words :
        d \in Postings(word) => Postings(word) = Registered

\* C15: FindAllDocuments emits one Document for each registered document
\* with a plus word of the query in its postings and no minus word, and for
\* no other; with relevance 0 when the plus words the document has are in
\* every document; with the rating and the status stored for it. The result
\* of FindTopDocuments is made of these Documents.
C15_EvaluationEmitsExactlyTheSurvivingDocuments ==
    (last.op = "FindTopDocuments" /\ ~LastQuery.thrown) =>
        LET found     == FindAllDocuments(LastQuery)
            documents == found.documents
        IN  /\ ~found.thrown
            /\ last.outcome = "ok"
            /\ Len(documents) = Cardinality(Surviving)
            /\ Ids(documents) = Surviving
            /\ \A i \in 1..Len(documents) :
                   LET stored == document_id_to_rating_and_rating_[documents[i].id]
                   IN  /\ documents[i].rating = stored.rating
                       /\ documents[i].status = stored.status
                       /\ OnlyCommonWords(documents[i].id) =>
                              documents[i].relevance = Zero
            /\ Len(documents) <= MAX_RESULT_DOCUMENT_COUNT =>
                   Range(last.documents) =
                       {document \in Range(documents) :
                           Filter(last.filter, document.id, document.status,
                                  document.rating)}

\* C15: "a" is in both documents and "b" in document 1 only; the query
\* "a -0 -b" has given document 0, with relevance 0 and what is stored for it
C15_Witness ==
    /\ stop_words_ = {}
    /\ Postings(<<97>>) = {0, 1}
    /\ Postings(<<98>>) = {1}
    /\ last.op = "FindTopDocuments"
    /\ last.raw_query = <<97, 32, 45, 48, 32, 45, 98>>
    /\ last.filter = [kind |-> "even_id"]
    /\ Len(last.documents) = 1
    /\ last.documents[1].id = 0
    /\ last.documents[1].relevance = Zero
    /\ last.documents[1].rating = 0
    /\ last.documents[1].status = "BANNED"

\* 1.0
One == Round(<<1>>, 0)

\* the double nearest to k / n, for 0 < k, n < Base
Quotient(k, n) ==
    LET s      == MantissaBits + 2 + BitLen(<<n>>)
        result == BigDiv(ShiftLeft(<<k>>, s), n)
    IN  Round(BigAdd(ShiftLeft(result.quotient, 1),
                     IF result.rem = 0 THEN <<>> ELSE <<1>>), -(s + 1))

\* the sum of the term frequencies of document d, as the number it is and
\* not rounded: the significand for the exponent low
RECURSIVE ExactSum(_, _, _)
ExactSum(words, d, low) ==
    IF words = <<>> THEN <<>>
    ELSE LET tf == tf_[Head(words)][d]
         IN  BigAdd(ShiftLeft(tf.m, tf.e - low), ExactSum(Tail(words), d, low))

\* the words document d has postings for
WordsOf(d) == {word \in DOMAIN tf_ : d \in DOMAIN tf_[word]}

LowestExponent(d) ==
    CHOOSE e \in {tf_[word][d].e : word \in WordsOf(d)} :
        \A word \in WordsOf(d) : e <= tf_[word][d].e

\* the term frequencies of document d sum to 1, to the last bit
SumsToOne(d) ==
    ExactSum(InOrder(WordsOf(d)), d, LowestExponent(d)) =
        ShiftLeft(<<1>>, -LowestExponent(d))

\* the term frequencies of document d sum to 1, rounding errors aside
SumsToNearlyOne(d) ==
    DoubleLess(DoubleAbsDiff(Round(ExactSum(InOrder(WordsOf(d)), d,
                                            LowestExponent(d)),
                                   LowestExponent(d)), One), EPSILON)

Added == last.op = "AddDocument" /\ last.outcome = "ok"

AddedWords == SplitIntoWordsNoStop(last.document)

AddedOccurrences(word) ==
    Cardinality({i \in 1..Len(AddedWords) : AddedWords[i] = word})

\* the document just added is stored with its status and a rating, is the
\* last of the ids, and is counted
AddedIsRegistered ==
    LET d == last.document_id
    IN  /\ d \in Registered
        /\ document_id_to_rating_and_rating_[d].status = last.status
        /\ document_id_to_rating_and_rating_[d].rating \in
               ComputeAverageRating(last.ratings)
        /\ document_id_orders_[Len(document_id_orders_)] = d
        /\ GetDocumentCount = Cardinality(Registered)

\* C16: after a successful add of document d, d has a posting exactly for the
\* words of the text that are not stop words, with tf = occurrences / words,
\* so positive and summing to 1; with no such word d has no posting and is
\* registered, in order, and counted all the same.
C16_TfIsOccurrencesOverWords ==
    Added =>
        LET d == last.document_id
        IN  /\ WordsOf(d) = Range(AddedWords)
            /\ \A word \in WordsOf(d) :
                   /\ tf_[word][d] = Quotient(AddedOccurrences(word), Len(AddedWords))
                   /\ DoubleLess(Zero, tf_[word][d])
            /\ AddedWords # <<>> => SumsToOne(d)
            /\ AddedIsRegistered

\* C16, amended: tf is 1.0 / words added once for each occurrence, in double
\* arithmetic: positive, and occurrences / words but for the rounding errors,
\* as is the sum of the term frequencies of d and 1.
C16_TfIsTheStepAddedForEachOccurrence ==
    /\ \A word \in DOMAIN tf_ :
           /\ DOMAIN tf_[word] # {}
           /\ \A d \in DOMAIN tf_[word] : DoubleLess(Zero, tf_[word][d])
    /\ Added =>
        LET d == last.document_id
        IN  /\ WordsOf(d) = Range(AddedWords)
            /\ \A word \in WordsOf(d) :
                   LET tf == tf_[word][d]
                       of == Quotient(AddedOccurrences(word), Len(AddedWords))
                   IN  /\ tf = Repeated(Inverse(Len(AddedWords)),
                                        AddedOccurrences(word))
                       /\ DoubleLess(Zero, tf)
                       /\ DoubleLess(DoubleAbsDiff(tf, of), EPSILON)
            /\ AddedWords # <<>> => SumsToNearlyOne(d)
            /\ AddedIsRegistered

\* C16: document 0 has been added with an empty text, and then document 1
\* with "a a a b b", whose tf of "a", 0.6000000000000001, is not 3. / 5
C16_Witness ==
    /\ stop_words_ = {}
    /\ document_id_orders_ = <<0, 1>>
    /\ WordsOf(0) = {}
    /\ 0 \in Registered
    /\ Added
    /\ last.document_id = 1
    /\ last.document = <<97, 32, 97, 32, 97, 32, 98, 32, 98>>
    /\ WordsOf(1) = {<<97>>, <<98>>}
    /\ tf_[<<97>>][1] # Quotient(3, 5)
    /\ tf_[<<98>>][1] = Quotient(2, 5)

\* the call in progress, made again on the state it has left, has the
\* outcome it has had; a call that has thrown has given nothing
RepeatedCallAgrees ==
    /\ last.op = "FindTopDocuments" =>
           /\ [outcome |-> last.outcome, documents |-> last.documents] \in
                  FindTopDocumentsOutcomes(last.raw_query, last.filter)
           /\ last.outcome # "ok" => last.documents = <<>>
    /\ last.op = "MatchDocument" =>
           /\ [outcome |-> last.outcome, words |-> last.words,
               status |-> last.status] =
                  MatchDocumentOutcome(last.raw_query, last.document_id)
           /\ last.outcome # "ok" => last.words = <<>>

\* C17: FindTopDocuments and MatchDocument change nothing of the server,
\* whether they return or throw, so that the same call on the state they
\* leave has the same outcome; and a call that throws gives no documents and
\* no words.
C17_QueryAndMatchAreReadOnly ==
    /\ [][last'.op \in {"FindTopDocuments", "MatchDocument"} => server' = server]_vars
    /\ []RepeatedCallAgrees

\* C17: on a server with two documents and an index, MatchDocument has
\* thrown on a query with a minus word that is not a key of the index
C17_Witness ==
    /\ Cardinality(Registered) = 2
    /\ DOMAIN tf_ # {}
    /\ last.op = "MatchDocument"
    /\ last.document_id \in Registered
    /\ last.raw_query = <<97, 32, 45, 48, 32, 45, 98>>
    /\ last.outcome = "out_of_range"

\* C18: every id in the postings of a word is a key of the document store;
\* the list of ids has each key of the store once and nothing else; every
\* word of the index is in at least one document and in no more than
\* GetDocumentCount, so that CalculateIDF divides by no zero and takes the
\* logarithm of no number below 1; and FindAllDocuments finds the rating and
\* status of every document it emits.
C18_TheIndexIsConsistent ==
    /\ \A word \in DOMAIN tf_ :
           /\ DOMAIN tf_[word] \subseteq Registered
           /\ 1 <= Cardinality(DOMAIN tf_[word])
           /\ Cardinality(DOMAIN tf_[word]) <= GetDocumentCount
           /\ ~DoubleLess(CalculateIDF(Cardinality(DOMAIN tf_[word])), Zero)
    /\ Range(document_id_orders_) = Registered
    /\ Len(document_id_orders_) = Cardinality(Registered)
    /\ last.op = "FindTopDocuments" => last.outcome # "out_of_range"
    /\ \A raw_query \in Queries :
           ~ParseQuery(raw_query).thrown =>
               ~FindAllDocuments(ParseQuery(raw_query)).thrown

\* C18: document 1 is indexed with "a" and "b", and an add of document 0
\* with a text of these words and a control character has just failed
C18_Witness ==
    /\ Registered = {1}
    /\ document_id_orders_ = <<1>>
    /\ Postings(<<97>>) = {1}
    /\ Postings(<<98>>) = {1}
    /\ last.op = "AddDocument"
    /\ last.document = <<97, 9, 98>>
    /\ last.document_id = 0
    /\ last.outcome = "invalid_argument"

=============================================================================
